---- MODULE Spec2Model ----
(***************************************************************************)
(* Verification model of the Smart Store FAQ chatbot (package cox):        *)
(*   - cox/memory/conversation.py   bounded per-session message history    *)
(*   - cox/embedding/chunker.py     token-budget chunking with overlap     *)
(*   - cox/retrieval/retriever.py   retrieval and the domain gate          *)
(*   - cox/generation/llm.py        follow-up question generation          *)
(*   - cox/api/router.py            the chat, chat/stream, history routes  *)
(*   - cox/memory/conversation.py   the session store, export and import   *)
(* The module carries one specification per component; every variable a    *)
(* specification does not use stays at its initial value.                  *)
(***************************************************************************)
EXTENDS Integers, Sequences, FiniteSets, TLC

VARIABLES
    clock,          \* logical time: the value datetime.now() hands out next
    conv,           \* one Conversation object (session_id, max_history, messages)
    appended,       \* history variable: messages appended to conv since creation / last clear
    question,       \* chunker input: the question text
    answer,         \* chunker input: the answer text
    max_tokens,     \* chunker input: the token budget B
    overlap_ratio,  \* chunker input: the overlap ratio r, in percent
    chunk_out,      \* outcome of the last chunk_qna_with_overlap call
    qna_dict,       \* corpus handed to process_qna_dict (pairs in iteration order)
    corpus_out,     \* outcome of the last process_qna_dict call
    query,          \* classifier input: the query text
    service,        \* what the Embedding Client and the Vector Index answer
    domain_out,     \* outcome of the last is_domain_question call
    conversations,  \* ConversationManager.conversations: session_id -> Conversation
    reqs,           \* the HTTP requests in flight and finished
    file,           \* the file save_to_file writes and load_from_file reads
    last_op         \* history variable: the last ConversationManager call

vars == <<clock, conv, appended, question, answer, max_tokens, overlap_ratio,
          chunk_out, qna_dict, corpus_out, query, service, domain_out,
          conversations, reqs, file, last_op>>

convVars    == <<conv, appended>>
chunkVars   == <<question, answer, max_tokens, overlap_ratio, chunk_out>>
corpusVars  == <<qna_dict, corpus_out>>
domainVars  == <<query, service, domain_out>>
apiVars     == <<conversations, reqs>>
storeVars   == <<file, last_op>>

\* the value of a variable that holds no outcome yet
None == [none |-> TRUE]

\* no file written yet, and no ConversationManager call made yet
NoFile == [exists |-> FALSE, data |-> << >>]
NoOp   == [name |-> "none", session_id |-> "", raised |-> FALSE, sessions_before |-> {}]

(***************************************************************************)
(* Bounds of the model.                                                    *)
(***************************************************************************)
MaxPairs    == 2     \* largest max_history a Conversation is created with
MaxAppends  == 6     \* appends explored on one Conversation
MaxContents == 2     \* distinct message contents
MaxWords    == 4     \* words in an answer handed to the chunker
MaxTok      == 3     \* tokens of one word
MaxQTok     == 2     \* tokens of a question
MaxBudget   == 5     \* largest token budget B
MaxCorpus   == 2     \* pairs in a corpus handed to process_qna_dict
MaxCorpusWords == 2  \* words in an answer of such a corpus
MaxQueryLen == 3     \* characters in a query
MaxDocs     == 2     \* documents stored in the Vector Index
MaxReqs     == 2     \* HTTP requests in one behaviour
MaxStoreAppends == 3 \* add_message calls in one behaviour of the store
MaxFragments == 2    \* text fragments one generation stream yields

(***************************************************************************)
(* Python helpers.                                                         *)
(***************************************************************************)
Min(a, b) == IF a < b THEN a ELSE b
Max(a, b) == IF a > b THEN a ELSE b

\* s[start:] with Python's rules: a negative start counts from the end, and
\* -0 is 0, so s[-0:] is the whole list.
PySliceFrom(s, start) ==
    LET n == Len(s)
        b == IF start < 0 THEN Max(n + start, 0) ELSE Min(start, n)
    IN  SubSeq(s, b + 1, n)

(***************************************************************************)
(* cox/config.py                                                           *)
(***************************************************************************)
MAX_CONVERSATION_HISTORY == 5

(***************************************************************************)
(* cox/memory/conversation.py : Message, Conversation                      *)
(***************************************************************************)
Roles    == {"user", "assistant"}
Contents == 1..MaxContents

\* Message.__init__: timestamp defaults to datetime.now()
Message(role, content, now) == [role |-> role, content |-> content, timestamp |-> now]

\* Conversation.__init__
Conversation(session_id, max_history) ==
    [session_id |-> session_id, max_history |-> max_history, messages |-> <<>>]

\* Conversation.add_message: append, then trim when over max_history * 2
Conversation_add_message(c, role, content, now) ==
    LET ms == Append(c.messages, Message(role, content, now))
    IN  [c EXCEPT !.messages =
            IF Len(ms) > c.max_history * 2
            THEN PySliceFrom(ms, -(c.max_history * 2))
            ELSE ms]

\* Conversation.get_history (timestamps kept) and get_context_for_llm (dropped)
Conversation_get_history(c) == c.messages
Conversation_get_context_for_llm(c) ==
    [i \in 1..Len(c.messages) |->
        [role |-> c.messages[i].role, content |-> c.messages[i].content]]

\* Conversation.clear
Conversation_clear(c) == [c EXCEPT !.messages = <<>>]

(***************************************************************************)
(* Specification of one Conversation object.                               *)
(***************************************************************************)
InitOthersConv ==
    /\ question = <<>> /\ answer = <<>> /\ max_tokens = 0 /\ overlap_ratio = 0
    /\ chunk_out = None /\ qna_dict = <<>> /\ corpus_out = None
    /\ query = <<>> /\ service = None /\ domain_out = None
    /\ conversations = << >> /\ reqs = << >>
    /\ file = NoFile /\ last_op = NoOp

InitConversation ==
    /\ clock = 1
    /\ \E mh \in ({MAX_CONVERSATION_HISTORY} \cup (0..MaxPairs)) :
            conv = Conversation("s", mh)
    /\ appended = <<>>
    /\ InitOthersConv

ConvAddMessage ==
    /\ clock <= MaxAppends
    /\ \E role \in Roles, content \in Contents :
        /\ conv' = Conversation_add_message(conv, role, content, clock)
        /\ appended' = Append(appended, Message(role, content, clock))
    /\ clock' = clock + 1
    /\ UNCHANGED <<chunkVars, corpusVars, domainVars, apiVars, storeVars>>

ConvClear ==
    /\ conv' = Conversation_clear(conv)
    /\ appended' = <<>>
    /\ UNCHANGED <<clock, chunkVars, corpusVars, domainVars, apiVars, storeVars>>

NextConversation == ConvAddMessage \/ ConvClear

SpecConversation == InitConversation /\ [][NextConversation]_vars

\* C1: after any sequence of appends, a session created with a non-negative
\* max_pairs holds at most 2 * max_pairs messages.
C1_HistoryBounded ==
    conv.max_history >= 0 => Len(Conversation_get_history(conv)) <= 2 * conv.max_history

\* C2: after n appends since creation or the last clear, history() is exactly
\* the last min(n, 2 * max_pairs) appended messages, in append order.
C2_HistoryIsSuffix ==
    LET n == Len(appended)
        k == Min(n, 2 * conv.max_history)
    IN  Conversation_get_history(conv) = SubSeq(appended, n - k + 1, n)

(***************************************************************************)
(* Texts.  A text is a sequence of words; a word records how many tokens   *)
(* the tokenizer gives it (tok), whether it ends with sentence-terminal    *)
(* punctuation followed by whitespace or the end of the text (end), and    *)
(* its position in the text it comes from (id), so that loss, duplication  *)
(* and reordering of words are visible.  Joining texts with " " is the     *)
(* concatenation of their word sequences.                                  *)
(***************************************************************************)
Word(id, tok, end) == [id |-> id, tok |-> tok, end |-> end]

RECURSIVE SumTok(_)
SumTok(text) == IF text = <<>> THEN 0 ELSE Head(text).tok + SumTok(Tail(text))

\* count_tokens: len(enc.encode(text)); a separating space is encoded with
\* the word that follows it
count_tokens(text) == SumTok(text)

\* count_tokens(word + " "): the trailing space is a token of its own
count_tokens_word(w) == w.tok + 1

\* " ".join(list of texts)
RECURSIVE Join(_)
Join(texts) == IF texts = <<>> THEN <<>> ELSE Head(texts) \o Join(Tail(texts))

\* split_into_sentences: cut after every terminal punctuation that is
\* followed by whitespace; what follows the last cut is a sentence too
RECURSIVE SplitFrom(_, _, _)
SplitFrom(text, k, cur) ==
    IF k > Len(text)
    THEN IF cur = <<>> THEN <<>> ELSE <<cur>>
    ELSE IF text[k].end
         THEN <<Append(cur, text[k])>> \o SplitFrom(text, k + 1, <<>>)
         ELSE SplitFrom(text, k + 1, Append(cur, text[k]))

split_into_sentences(text) == SplitFrom(text, 1, <<>>)

(***************************************************************************)
(* cox/embedding/chunker.py : chunk_qna_with_overlap                       *)
(***************************************************************************)
\* the word-level loop over one oversized sentence (lines 73-81)
RECURSIVE WordLoop(_, _, _, _, _, _)
WordLoop(words, k, chunks, temp_chunk, temp_tokens, available_tokens) ==
    IF k > Len(words)
    THEN [chunks |-> chunks, temp_chunk |-> temp_chunk, temp_tokens |-> temp_tokens]
    ELSE LET word_tokens == count_tokens_word(words[k])
         IN  IF temp_tokens + word_tokens <= available_tokens
             THEN WordLoop(words, k + 1, chunks, Append(temp_chunk, words[k]),
                           temp_tokens + word_tokens, available_tokens)
             ELSE WordLoop(words, k + 1, Append(chunks, temp_chunk), <<words[k]>>,
                           word_tokens, available_tokens)

\* the sentence loop (lines 56-88); chunks holds the answer fragments
RECURSIVE SentenceLoop(_, _, _, _, _, _)
SentenceLoop(answer_sentences, k, chunks, current_chunk, current_tokens, available_tokens) ==
    IF k > Len(answer_sentences)
    THEN [chunks |-> chunks, current_chunk |-> current_chunk]
    ELSE LET sentence == answer_sentences[k]
             tokens   == count_tokens(sentence)
         IN  IF current_tokens + tokens <= available_tokens
             THEN SentenceLoop(answer_sentences, k + 1, chunks, current_chunk \o sentence,
                               current_tokens + tokens, available_tokens)
             ELSE LET closed == IF current_chunk # <<>>
                                THEN Append(chunks, current_chunk) ELSE chunks
                  IN  IF tokens > available_tokens
                      THEN LET w == WordLoop(sentence, 1, closed, <<>>, 0, available_tokens)
                           IN  IF w.temp_chunk # <<>>
                               THEN SentenceLoop(answer_sentences, k + 1, w.chunks,
                                                 w.temp_chunk, w.temp_tokens, available_tokens)
                               ELSE SentenceLoop(answer_sentences, k + 1, w.chunks,
                                                 <<>>, 0, available_tokens)
                      ELSE SentenceLoop(answer_sentences, k + 1, closed, sentence,
                                        tokens, available_tokens)

\* raw_chunks without the final "if current_chunk: chunks.append(...)"
raw_chunks_NoFinalFlush(q, a, B) ==
    SentenceLoop(split_into_sentences(a), 1, <<>>, <<>>, 0, B - count_tokens(q)).chunks

\* the answer fragments before overlap is applied (lines 47-92)
raw_chunks(q, a, B) ==
    LET r == SentenceLoop(split_into_sentences(a), 1, <<>>, <<>>, 0, B - count_tokens(q))
    IN  IF r.current_chunk # <<>> THEN Append(r.chunks, r.current_chunk) ELSE r.chunks

\* overlap_count = max(1, int(len(prev_sentences) * overlap_ratio))
\* variant: the product rounded up instead of truncated
overlap_count_RoundedUp(prev_sentences, ratio) ==
    Max(1, (Len(prev_sentences) * ratio + 99) \div 100)

overlap_count(prev_sentences, ratio) == Max(1, (Len(prev_sentences) * ratio) \div 100)

\* initial_overlap taking the first sentences of the previous chunk
\* (prev_sentences[:overlap_count]) instead of the last ones
initial_overlap_FromHead(prev_sentences, ratio) ==
    SubSeq(prev_sentences, 1, Min(overlap_count(prev_sentences, ratio), Len(prev_sentences)))

\* prev_sentences[-overlap_count:] if overlap_count < len(prev_sentences) else prev_sentences
initial_overlap(prev_sentences, ratio) ==
    LET c == overlap_count(prev_sentences, ratio)
    IN  IF c < Len(prev_sentences) THEN PySliceFrom(prev_sentences, -c) ELSE prev_sentences

\* count_tokens(" ".join(overlap_sentences) + " " + curr_answer): when
\* curr_answer is empty the separating space ends the text and is a token of
\* its own
count_tokens_overlapped(overlap_sentences, curr_answer) ==
    count_tokens(Join(overlap_sentences) \o curr_answer)
        + (IF curr_answer = <<>> THEN 1 ELSE 0)

\* the while loop of lines 108-110: drop leading overlap sentences until the
\* chunk fits or no overlap sentence is left
RECURSIVE trim_overlap(_, _, _, _)
trim_overlap(overlap_sentences, curr_answer, question_tokens, B) ==
    IF /\ count_tokens_overlapped(overlap_sentences, curr_answer) + question_tokens > B
       /\ overlap_sentences # <<>>
    THEN trim_overlap(Tail(overlap_sentences), curr_answer, question_tokens, B)
    ELSE overlap_sentences

\* the overlap sentences chunk i (1-based, i > 1) ends up with
overlap_sentences_of(chunks, i, q, B, ratio) ==
    trim_overlap(initial_overlap(split_into_sentences(chunks[i - 1]), ratio),
                 chunks[i], count_tokens(q), B)

\* lines 94-115
apply_overlap(chunks, q, B, ratio) ==
    IF Len(chunks) > 1 /\ ratio > 0
    THEN [i \in 1..Len(chunks) |->
            IF i = 1 THEN chunks[1]
            ELSE Join(overlap_sentences_of(chunks, i, q, B, ratio)) \o chunks[i]]
    ELSE chunks

\* chunk_qna_with_overlap: the list of (question, answer) tuples, or ValueError
\* variant: the oversized-question test made before the fast path
chunk_qna_with_overlap_OversizeFirst(q, a, B, ratio) ==
    IF count_tokens(q) > B \div 2
    THEN [raised |-> TRUE, chunks |-> <<>>]
    ELSE IF count_tokens(q) + count_tokens(a) <= B
    THEN [raised |-> FALSE, chunks |-> << <<q, a>> >>]
    ELSE LET ov == apply_overlap(raw_chunks(q, a, B), q, B, ratio)
         IN  [raised |-> FALSE, chunks |-> [i \in 1..Len(ov) |-> <<q, ov[i]>>]]

\* variant: the half of the budget rounded up instead of down
chunk_qna_with_overlap_HalfRoundedUp(q, a, B, ratio) ==
    IF count_tokens(q) + count_tokens(a) <= B
    THEN [raised |-> FALSE, chunks |-> << <<q, a>> >>]
    ELSE IF count_tokens(q) > (B + 1) \div 2
    THEN [raised |-> TRUE, chunks |-> <<>>]
    ELSE LET ov == apply_overlap(raw_chunks(q, a, B), q, B, ratio)
         IN  [raised |-> FALSE, chunks |-> [i \in 1..Len(ov) |-> <<q, ov[i]>>]]

chunk_qna_with_overlap(q, a, B, ratio) ==
    IF count_tokens(q) + count_tokens(a) <= B
    THEN [raised |-> FALSE, chunks |-> << <<q, a>> >>]
    ELSE IF count_tokens(q) > B \div 2
    THEN [raised |-> TRUE, chunks |-> <<>>]
    ELSE LET ov == apply_overlap(raw_chunks(q, a, B), q, B, ratio)
         IN  [raised |-> FALSE, chunks |-> [i \in 1..Len(ov) |-> <<q, ov[i]>>]]

(***************************************************************************)
(* Specification of the chunker: one call on inputs drawn from bounded     *)
(* sets, and on the scenario of the design's section 8 (B = 50, a question *)
(* of 6 tokens, 10 sentences of 20 tokens, r = 0.2).                       *)
(***************************************************************************)
OverlapRatios == {0, 20, 50}

AnswerTexts ==
    UNION { { [i \in 1..n |-> Word(i, f[i][1], f[i][2])] :
                f \in [1..n -> (1..MaxTok) \X BOOLEAN] } : n \in 0..MaxWords }

QuestionTexts == { <<Word(0, t, TRUE)>> : t \in 1..MaxQTok }

ScenarioQuestion == <<Word(0, 6, TRUE)>>
ScenarioAnswer   == [i \in 1..10 |-> Word(i, 20, TRUE)]
IsScenario ==
    /\ question = ScenarioQuestion /\ answer = ScenarioAnswer
    /\ max_tokens = 50 /\ overlap_ratio = 20

InitOthersChunker ==
    /\ clock = 1 /\ conv = None /\ appended = <<>>
    /\ qna_dict = <<>> /\ corpus_out = None
    /\ query = <<>> /\ service = None /\ domain_out = None
    /\ conversations = << >> /\ reqs = << >>
    /\ file = NoFile /\ last_op = NoOp

InitChunker ==
    /\ \/ /\ question \in QuestionTexts
          /\ answer \in AnswerTexts
          /\ max_tokens \in 1..MaxBudget
          /\ overlap_ratio \in OverlapRatios
       \/ IsScenario
    /\ chunk_out = None
    /\ InitOthersChunker

CallChunk ==
    /\ chunk_out = None
    /\ chunk_out' = chunk_qna_with_overlap(question, answer, max_tokens, overlap_ratio)
    /\ UNCHANGED <<clock, convVars, question, answer, max_tokens, overlap_ratio,
                   corpusVars, domainVars, apiVars, storeVars>>

NextChunker == CallChunk

SpecChunker == InitChunker /\ [][NextChunker]_vars

Returned == chunk_out # None /\ ~chunk_out.raised
\* the pair did not take the fast path: it was split by the packing loops
WasSplit == Returned /\ count_tokens(question) + count_tokens(answer) > max_tokens
RawChunks == raw_chunks(question, answer, max_tokens)
OverlapOf(i) == overlap_sentences_of(RawChunks, i, question, max_tokens, overlap_ratio)
HasOverlapPhase == WasSplit /\ Len(chunk_out.chunks) > 1 /\ overlap_ratio > 0

\* C3: every returned chunk satisfies tokens(question) + tokens(answer_fragment) <= B.
C3_ChunkWithinBudget ==
    Returned =>
        \A i \in 1..Len(chunk_out.chunks) :
            count_tokens(chunk_out.chunks[i][1]) + count_tokens(chunk_out.chunks[i][2])
                <= max_tokens

\* the answer fragment of returned chunk i once the overlap sentences that
\* were prepended to it are removed
StrippedFragment(i) ==
    IF i > 1 /\ HasOverlapPhase
    THEN PySliceFrom(chunk_out.chunks[i][2], Len(Join(OverlapOf(i))))
    ELSE chunk_out.chunks[i][2]

\* C7: for a pair split into several chunks, removing the prepended overlap
\* sentences from every chunk i > 0 and concatenating the remaining fragments
\* in chunk order gives back the answer's sentence sequence exactly.
C7_RoundTripUnderOverlapRemoval ==
    (WasSplit /\ Len(chunk_out.chunks) > 1) =>
        split_into_sentences(Join([i \in 1..Len(chunk_out.chunks) |-> StrippedFragment(i)]))
            = split_into_sentences(answer)

C7_Witness ==
    /\ HasOverlapPhase
    /\ \E i \in 2..Len(chunk_out.chunks) : OverlapOf(i) # <<>>
    /\ C7_RoundTripUnderOverlapRemoval

\* sentences ov are the last Len(ov) sentences of prev, in order
IsTailOf(ov, prev) ==
    /\ Len(ov) <= Len(prev)
    /\ ov = SubSeq(prev, Len(prev) - Len(ov) + 1, Len(prev))

\* returned chunk i begins with the sentences ov and continues with raw chunk i
BeginsWithOverlap(i, ov) ==
    chunk_out.chunks[i][2] = Join(ov) \o RawChunks[i]

\* C8 (as claimed): with more than one chunk and r > 0, every chunk i > 0
\* begins with at least 1 and at most sentence_count(chunk i-1) sentences
\* duplicated from the tail of chunk i-1, also after budget trimming; in the
\* scenario there are at least 4 chunks and chunk 2 starts with an overlap.
C8_OverlapAtLeastOne ==
    /\ HasOverlapPhase =>
          \A i \in 2..Len(chunk_out.chunks) :
              /\ Len(OverlapOf(i)) >= 1
              /\ IsTailOf(OverlapOf(i), split_into_sentences(RawChunks[i - 1]))
              /\ BeginsWithOverlap(i, OverlapOf(i))
    /\ (IsScenario /\ Returned) =>
          /\ Len(chunk_out.chunks) >= 4
          /\ Len(OverlapOf(2)) >= 1

\* C8 (amended): every chunk i > 0 begins with at most sentence_count(chunk i-1)
\* sentences duplicated from the tail of chunk i-1; budget trimming may leave
\* none, and leaves at least 1 whenever chunk i-1 has a sentence and its last
\* sentence, joined with chunk i's own fragment, fits the budget together
\* with the question; in the scenario there are at least 4 chunks.
C8_OverlapBounded ==
    /\ HasOverlapPhase =>
          \A i \in 2..Len(chunk_out.chunks) :
              LET prev == split_into_sentences(RawChunks[i - 1])
              IN  /\ IsTailOf(OverlapOf(i), prev)
                  /\ BeginsWithOverlap(i, OverlapOf(i))
                  /\ ( /\ prev # <<>>
                       /\ count_tokens(question)
                             + count_tokens_overlapped(<<prev[Len(prev)]>>, RawChunks[i])
                             <= max_tokens )
                     => Len(OverlapOf(i)) >= 1
    /\ (IsScenario /\ Returned) => Len(chunk_out.chunks) >= 4

C8_Witness ==
    /\ HasOverlapPhase
    /\ \E i \in 2..Len(chunk_out.chunks) : Len(OverlapOf(i)) >= 1
    /\ \E j \in 2..Len(chunk_out.chunks) :
          /\ OverlapOf(j) = <<>>
          /\ split_into_sentences(RawChunks[j - 1]) # <<>>

\* the overlap sentences chosen for chunk i (1-based, i > 1) before trimming
UntrimmedOverlapOf(i) ==
    initial_overlap(split_into_sentences(RawChunks[i - 1]), overlap_ratio)

\* ov is what is left of full after dropping leading sentences
IsSuffixOf(ov, full) ==
    /\ Len(ov) <= Len(full)
    /\ ov = SubSeq(full, Len(full) - Len(ov) + 1, Len(full))

\* the overlap phase seen from the returned chunks: chunk 0 is raw chunk 0,
\* and chunk i > 0 is raw chunk i behind the sentences trimming left of the
\* untrimmed overlap, all of them when the untrimmed chunk fits the budget
OverlapPhaseShape ==
    /\ Returned =>
          chunk_out.chunks[1][2] = IF WasSplit THEN RawChunks[1] ELSE answer
    /\ HasOverlapPhase =>
          \A i \in 2..Len(chunk_out.chunks) :
              /\ IsTailOf(UntrimmedOverlapOf(i), split_into_sentences(RawChunks[i - 1]))
              /\ IsSuffixOf(OverlapOf(i), UntrimmedOverlapOf(i))
              /\ BeginsWithOverlap(i, OverlapOf(i))
              /\ count_tokens(question)
                    + count_tokens_overlapped(UntrimmedOverlapOf(i), RawChunks[i])
                    <= max_tokens
                 => OverlapOf(i) = UntrimmedOverlapOf(i)

\* C17 (as claimed): before trimming, the number of sentences prepended to
\* chunk i > 0 is max(1, ceil(r * sentence_count(chunk i-1))), no more than
\* chunk i-1 has, taken as the last sentences of chunk i-1 in order; chunk 0
\* never receives overlap.
C17_OverlapCountCeiling ==
    /\ OverlapPhaseShape
    /\ HasOverlapPhase =>
          \A i \in 2..Len(chunk_out.chunks) :
              LET n == Len(split_into_sentences(RawChunks[i - 1]))
              IN  Len(UntrimmedOverlapOf(i))
                      = Min(n, Max(1, (n * overlap_ratio + 99) \div 100))

\* C17 (amended): before trimming, the number of sentences prepended to
\* chunk i > 0 is max(1, floor(r * sentence_count(chunk i-1))), no more than
\* chunk i-1 has, taken as the last sentences of chunk i-1 in order; chunk 0
\* never receives overlap.
C17_OverlapCountFloor ==
    /\ OverlapPhaseShape
    /\ HasOverlapPhase =>
          \A i \in 2..Len(chunk_out.chunks) :
              LET n == Len(split_into_sentences(RawChunks[i - 1]))
              IN  Len(UntrimmedOverlapOf(i))
                      = Min(n, Max(1, (n * overlap_ratio) \div 100))

\* r * sentence_count is 1.5: one sentence is prepended, and it is kept
C17_Witness ==
    /\ HasOverlapPhase
    /\ overlap_ratio = 50
    /\ Len(split_into_sentences(RawChunks[1])) = 3
    /\ Len(UntrimmedOverlapOf(2)) = 1
    /\ OverlapOf(2) = UntrimmedOverlapOf(2)
    /\ BeginsWithOverlap(2, UntrimmedOverlapOf(2))

\* C19: no returned chunk has an empty answer fragment: every chunk of a
\* non-empty answer carries at least one word of it, also in the word-level
\* fallback when the first word alone exceeds B - tokens(question).
C19_NoEmptyFragment ==
    (Returned /\ answer # <<>>) =>
        \A i \in 1..Len(chunk_out.chunks) : chunk_out.chunks[i][2] # <<>>

\* the pair fits the budget as a whole
Fits == count_tokens(question) + count_tokens(answer) <= max_tokens

\* C11: a pair with tokens(question) + tokens(answer) <= B is returned as
\* exactly one chunk holding the question and the answer unchanged, whatever
\* the overlap ratio and also when tokens(question) > B/2.
C11_FittingPairUnchanged ==
    (chunk_out # None /\ Fits) =>
        /\ ~chunk_out.raised
        /\ chunk_out.chunks = << <<question, answer>> >>

C11_Witness ==
    /\ Returned /\ Fits
    /\ 2 * count_tokens(question) > max_tokens
    /\ overlap_ratio > 0
    /\ answer # <<>>
    /\ chunk_out.chunks = << <<question, answer>> >>

RECURSIVE AddChunks(_, _, _, _, _)
AddChunks(chunks, j, q, result, chunk_id) ==
    IF j > Len(chunks)
    THEN [result |-> result, chunk_id |-> chunk_id]
    ELSE AddChunks(chunks, j + 1, q,
                   Append(result, [chunk_id |-> chunk_id,
                                   question |-> chunks[j][1],
                                   answer |-> chunks[j][2],
                                   original_question |-> q]),
                   chunk_id + 1)

\* the loop of lines 133-141 over the pairs; an exception raised by
\* chunk_qna_with_overlap is not caught and leaves the function
RECURSIVE PairLoop(_, _, _, _, _, _)
PairLoop(d, k, result, chunk_id, B, ratio) ==
    IF k > Len(d)
    THEN [raised |-> FALSE, result |-> result]
    ELSE LET c == chunk_qna_with_overlap(d[k][1], d[k][2], B, ratio)
         IN  IF c.raised
             THEN [raised |-> TRUE, result |-> <<>>]
             ELSE LET r == AddChunks(c.chunks, 1, d[k][1], result, chunk_id)
                  IN  PairLoop(d, k + 1, r.result, r.chunk_id, B, ratio)

\* variant: the counter started at 1
process_qna_dict_IdsFromOne(d, B, ratio) == PairLoop(d, 1, <<>>, 1, B, ratio)

process_qna_dict(d, B, ratio) == PairLoop(d, 1, <<>>, 0, B, ratio)

(***************************************************************************)
(* Specification of corpus preparation: one process_qna_dict call on a     *)
(* corpus of pairs with distinct questions.                                *)
(***************************************************************************)
CorpusAnswers == { a \in AnswerTexts : Len(a) <= MaxCorpusWords }
CorpusPairs   == QuestionTexts \X CorpusAnswers
Corpora ==
    { d \in UNION { [1..n -> CorpusPairs] : n \in 1..MaxCorpus } :
        \A i, j \in 1..Len(d) : i # j => d[i][1] # d[j][1] }

InitOthersCorpus ==
    /\ clock = 1 /\ conv = None /\ appended = <<>>
    /\ question = <<>> /\ answer = <<>> /\ chunk_out = None
    /\ query = <<>> /\ service = None /\ domain_out = None
    /\ conversations = << >> /\ reqs = << >>
    /\ file = NoFile /\ last_op = NoOp

InitCorpus ==
    /\ qna_dict \in Corpora
    /\ max_tokens \in 1..MaxBudget
    /\ overlap_ratio \in OverlapRatios
    /\ corpus_out = None
    /\ InitOthersCorpus

CallProcessQnaDict ==
    /\ corpus_out = None
    /\ corpus_out' = process_qna_dict(qna_dict, max_tokens, overlap_ratio)
    /\ UNCHANGED <<clock, convVars, chunkVars, qna_dict, domainVars, apiVars, storeVars>>

NextCorpus == CallProcessQnaDict

SpecCorpus == InitCorpus /\ [][NextCorpus]_vars

\* the entries of a result that come from the pair with question q, in order
RECURSIVE EntriesOf(_, _)
EntriesOf(result, q) ==
    IF result = <<>> THEN <<>>
    ELSE IF Head(result).original_question = q
         THEN <<Head(result)>> \o EntriesOf(Tail(result), q)
         ELSE EntriesOf(Tail(result), q)

ChunksOfPair(k) ==
    chunk_qna_with_overlap(qna_dict[k][1], qna_dict[k][2], max_tokens, overlap_ratio)

\* C5: when a pair of the corpus fails with the oversized-question error,
\* processing does not abort: the chunks of every other pair, before and
\* after the failing one, are still produced and returned.
C5_CorpusSurvivesOversizedQuestion ==
    corpus_out # None =>
        /\ ~corpus_out.raised
        /\ \A k \in 1..Len(qna_dict) :
              ~ChunksOfPair(k).raised =>
                  LET es == EntriesOf(corpus_out.result, qna_dict[k][1])
                  IN  [j \in 1..Len(es) |-> <<es[j].question, es[j].answer>>]
                          = ChunksOfPair(k).chunks

\* the position in the corpus of the pair whose question is q
PairIndex(q) == CHOOSE k \in 1..Len(qna_dict) : qna_dict[k][1] = q

\* C13: the chunk_ids of a returned corpus are exactly 0..N-1 in production
\* order: the pairs are taken in corpus order, the chunks of one pair get
\* consecutive ids in chunk order, the chunks of an earlier pair have smaller
\* ids than those of a later pair, and every entry's question equals its
\* original_question.
C13_DenseOrderedChunkIds ==
    (corpus_out # None /\ ~corpus_out.raised) =>
        LET res == corpus_out.result
        IN  /\ \A i \in 1..Len(res) :
                  /\ res[i].chunk_id = i - 1
                  /\ res[i].question = res[i].original_question
                  /\ \E k \in 1..Len(qna_dict) : qna_dict[k][1] = res[i].original_question
            /\ \A i, j \in 1..Len(res) :
                  i < j => PairIndex(res[i].original_question)
                              <= PairIndex(res[j].original_question)
            /\ \A k \in 1..Len(qna_dict) :
                  LET es == EntriesOf(res, qna_dict[k][1])
                  IN  [j \in 1..Len(es) |-> es[j].answer]
                          = [j \in 1..Len(es) |-> ChunksOfPair(k).chunks[j][2]]
                      /\ Len(es) = Len(ChunksOfPair(k).chunks)

\* a corpus of two pairs, the first one split into several chunks
C13_Witness ==
    /\ corpus_out # None /\ ~corpus_out.raised
    /\ Len(qna_dict) = 2
    /\ Len(ChunksOfPair(1).chunks) >= 2
    /\ Len(corpus_out.result) >= 3
    /\ corpus_out.result[Len(corpus_out.result)].chunk_id = Len(corpus_out.result) - 1

(***************************************************************************)
(* cox/retrieval/retriever.py : FAQRetriever                               *)
(* A query text is a sequence of characters.  Distances, similarities and  *)
(* thresholds are in hundredths (similarity 1 - d is 100 - d, the default  *)
(* threshold 0.1 is 10).  service is what the two external collaborators   *)
(* answer to this query: whether the Embedding Client fails, whether the   *)
(* Vector Index fails, and the distances of the stored documents, nearest  *)
(* first; document i stands for the i-th nearest stored chunk.             *)
(***************************************************************************)
Chars == {"a", "A", "b", "B", "x"}

\* str.lower() on one character and on a text
LowerChar(c) == CASE c = "A" -> "a" [] c = "B" -> "b" [] OTHER -> c
Lower(text) == [i \in 1..Len(text) |-> LowerChar(text[i])]

\* Python's "k in t" on strings
Contains(t, k) ==
    \E i \in 0..(Len(t) - Len(k)) : SubSeq(t, i + 1, i + Len(k)) = k

\* cox/config.py: DOMAIN_KEYWORDS (two stand-in keywords)
DOMAIN_KEYWORDS == << <<"a", "b">>, <<"x", "A">> >>

\* the default of is_domain_question's threshold parameter, 0.1
DEFAULT_THRESHOLD == 10

\* cox/embedding/vectorizer.py: get_embedding; raises ValueError on failure
get_embedding(text, svc) ==
    [raised |-> svc.embed_fails, embed_calls |-> 1]

\* cox/retrieval/vector_db.py: VectorDB.query; the n nearest stored documents
VectorDB_query(n_results, svc) ==
    [raised |-> svc.index_fails,
     distances |-> SubSeq(svc.distances, 1, Min(n_results, Len(svc.distances)))]

\* FAQRetriever.retrieve with the similarity taken to be the distance itself
retrieve_NoConversion(text, n_results, svc) ==
    LET e == get_embedding(text, svc)
    IN  IF e.raised
        THEN [raised |-> TRUE, results |-> <<>>, embed_calls |-> 1, index_calls |-> 0]
        ELSE LET r == VectorDB_query(n_results, svc)
             IN  IF r.raised
                 THEN [raised |-> TRUE, results |-> <<>>, embed_calls |-> 1, index_calls |-> 1]
                 ELSE [raised |-> FALSE,
                       results |-> [i \in 1..Len(r.distances) |->
                                      [question |-> i, answer |-> i, original_question |-> i,
                                       similarity |-> r.distances[i]]],
                       embed_calls |-> 1, index_calls |-> 1]

\* FAQRetriever.retrieve: embed, query the index, zip, similarity = 1 - distance
retrieve(text, n_results, svc) ==
    LET e == get_embedding(text, svc)
    IN  IF e.raised
        THEN [raised |-> TRUE, results |-> <<>>, embed_calls |-> 1, index_calls |-> 0]
        ELSE LET r == VectorDB_query(n_results, svc)
             IN  IF r.raised
                 THEN [raised |-> TRUE, results |-> <<>>, embed_calls |-> 1, index_calls |-> 1]
                 ELSE [raised |-> FALSE,
                       results |-> [i \in 1..Len(r.distances) |->
                                      [question |-> i, answer |-> i, original_question |-> i,
                                       similarity |-> 100 - r.distances[i]]],
                       embed_calls |-> 1, index_calls |-> 1]

\* the fallback of is_domain_question (lines 72-77)
similarity_gate(text, threshold, svc) ==
    LET r == retrieve(text, 1, svc)
    IN  [raised |-> r.raised,
         value |-> /\ ~r.raised
                   /\ r.results # <<>>
                   /\ r.results[1].similarity >= threshold,
         embed_calls |-> r.embed_calls, index_calls |-> r.index_calls]

\* is_domain_question comparing the keywords with the query as typed
\* (query_lower = query)
is_domain_question_NoLower(text, threshold, svc) ==
    IF \E k \in 1..Len(DOMAIN_KEYWORDS) : Contains(text, Lower(DOMAIN_KEYWORDS[k]))
    THEN [raised |-> FALSE, value |-> TRUE, embed_calls |-> 0, index_calls |-> 0]
    ELSE similarity_gate(text, threshold, svc)

\* FAQRetriever.is_domain_question
is_domain_question(text, threshold, svc) ==
    IF \E k \in 1..Len(DOMAIN_KEYWORDS) : Contains(Lower(text), Lower(DOMAIN_KEYWORDS[k]))
    THEN [raised |-> FALSE, value |-> TRUE, embed_calls |-> 0, index_calls |-> 0]
    ELSE similarity_gate(text, threshold, svc)

(***************************************************************************)
(* Specification of the domain gate: one is_domain_question call.          *)
(***************************************************************************)
QueryTexts == UNION { [1..n -> Chars] : n \in 0..MaxQueryLen }
Thresholds == {DEFAULT_THRESHOLD, 50}
DistanceValues == {0, 50, 89, 90, 91, 95, 100, 150, 200}
DistanceLists ==
    { d \in UNION { [1..n -> DistanceValues] : n \in 0..MaxDocs } :
        \A i \in 1..(Len(d) - 1) : d[i] <= d[i + 1] }
Services == [embed_fails : BOOLEAN, index_fails : BOOLEAN, distances : DistanceLists]

InitOthersDomain ==
    /\ clock = 1 /\ conv = None /\ appended = <<>>
    /\ question = <<>> /\ answer = <<>> /\ max_tokens = 0 /\ overlap_ratio = 0
    /\ chunk_out = None /\ qna_dict = <<>> /\ corpus_out = None
    /\ conversations = << >> /\ reqs = << >>
    /\ file = NoFile /\ last_op = NoOp

InitDomain ==
    /\ query \in [text : QueryTexts, threshold : Thresholds]
    /\ service \in Services
    /\ domain_out = None
    /\ InitOthersDomain

CallIsDomainQuestion ==
    /\ domain_out = None
    /\ domain_out' = is_domain_question(query.text, query.threshold, service)
    /\ UNCHANGED <<clock, convVars, chunkVars, corpusVars, query, service, apiVars, storeVars>>

NextDomain == CallIsDomainQuestion

SpecDomain == InitDomain /\ [][NextDomain]_vars

\* keyword kw occurs in text at some position, ignoring case
OccursIgnoringCase(text, kw) ==
    \E i \in 0..(Len(text) - Len(kw)) :
        \A j \in 1..Len(kw) : LowerChar(text[i + j]) = LowerChar(kw[j])

QueryHasKeyword ==
    \E k \in 1..Len(DOMAIN_KEYWORDS) : OccursIgnoringCase(query.text, DOMAIN_KEYWORDS[k])

\* C9: a query that contains a domain keyword as a case-insensitive substring
\* is classified in-domain without any call to the Embedding Client or the
\* Vector Index.
C9_KeywordShortCircuit ==
    (domain_out # None /\ QueryHasKeyword) =>
        /\ ~domain_out.raised
        /\ domain_out.value
        /\ domain_out.embed_calls = 0
        /\ domain_out.index_calls = 0

C9_Witness ==
    /\ domain_out # None /\ QueryHasKeyword
    /\ ~ (\E k \in 1..Len(DOMAIN_KEYWORDS) : Contains(query.text, DOMAIN_KEYWORDS[k]))
    /\ service.embed_fails
    /\ domain_out.value /\ domain_out.embed_calls = 0

\* C10: for a query without domain keyword, is_in_domain returns true exactly
\* when the index returns at least one result for k = 1 and 1 - (its first
\* distance) >= threshold, and false otherwise.
C10_SimilarityFallback ==
    (domain_out # None /\ ~QueryHasKeyword /\ ~domain_out.raised) =>
        /\ domain_out.embed_calls = 1 /\ domain_out.index_calls = 1
        /\ domain_out.value <=>
              /\ service.distances # <<>>
              /\ 100 - service.distances[1] >= query.threshold

C10_Witness ==
    /\ domain_out # None /\ ~QueryHasKeyword /\ ~domain_out.raised
    /\ query.threshold = DEFAULT_THRESHOLD
    /\ service.distances # <<>> /\ service.distances[1] = 95
    /\ ~domain_out.value

(***************************************************************************)
(* cox/memory/conversation.py : ConversationManager                        *)
(* conversations is a function from the session ids in the store to their  *)
(* Conversation.  Every operator returns the store it leaves behind.       *)
(***************************************************************************)
SessionIds == {"s1", "s2"}

\* ConversationManager.get_conversation: creates the session when unseen
Manager_get_conversation(cs, session_id) ==
    IF session_id \notin DOMAIN cs
    THEN [s \in (DOMAIN cs) \cup {session_id} |->
            IF s = session_id THEN Conversation(session_id, MAX_CONVERSATION_HISTORY)
            ELSE cs[s]]
    ELSE cs

\* ConversationManager.add_message
Manager_add_message(cs, session_id, role, content, now) ==
    LET c1 == Manager_get_conversation(cs, session_id)
    IN  [c1 EXCEPT ![session_id] = Conversation_add_message(@, role, content, now)]

\* ConversationManager.get_history / get_context_for_llm: the store they
\* leave behind (the session is created when unseen) and the value returned
Manager_get_history(cs, session_id) ==
    LET c1 == Manager_get_conversation(cs, session_id)
    IN  [conversations |-> c1, value |-> Conversation_get_history(c1[session_id])]

Manager_get_context_for_llm(cs, session_id) ==
    LET c1 == Manager_get_conversation(cs, session_id)
    IN  [conversations |-> c1, value |-> Conversation_get_context_for_llm(c1[session_id])]

\* variant: clearing takes the session out of the store
Manager_clear_conversation_Removes(cs, session_id) ==
    [s \in (DOMAIN cs) \ {session_id} |-> cs[s]]

\* ConversationManager.clear_conversation
Manager_clear_conversation(cs, session_id) ==
    IF session_id \in DOMAIN cs
    THEN [cs EXCEPT ![session_id] = Conversation_clear(@)]
    ELSE cs

\* ConversationManager.delete_conversation
Manager_delete_conversation(cs, session_id) ==
    IF session_id \in DOMAIN cs
    THEN [s \in (DOMAIN cs) \ {session_id} |-> cs[s]]
    ELSE cs

\* datetime.isoformat and datetime.fromisoformat: the timestamp as text
isoformat(timestamp) == <<"iso", timestamp>>
fromisoformat(text) == text[2]

\* Message.to_dict / Message.from_dict
Message_to_dict(m) ==
    [role |-> m.role, content |-> m.content, timestamp |-> isoformat(m.timestamp)]
Message_from_dict(data) ==
    Message(data.role, data.content, fromisoformat(data.timestamp))

\* Conversation.to_dict / Conversation.from_dict: max_history is not
\* exported, and from_dict assigns the messages without trimming
Conversation_to_dict(c) ==
    [session_id |-> c.session_id,
     messages |-> [i \in 1..Len(c.messages) |-> Message_to_dict(c.messages[i])]]
Conversation_from_dict(data) ==
    [Conversation(data.session_id, MAX_CONVERSATION_HISTORY) EXCEPT
        !.messages = [i \in 1..Len(data.messages) |-> Message_from_dict(data.messages[i])]]

\* ConversationManager.save_to_file: the content written to the file
Manager_save_to_file(cs) ==
    [exists |-> TRUE, data |-> [s \in DOMAIN cs |-> Conversation_to_dict(cs[s])]]

\* variant: the imported sessions merged into the store
Manager_load_from_file_Merge(cs, f) ==
    IF ~f.exists
    THEN [raised |-> TRUE, conversations |-> cs]
    ELSE [raised |-> FALSE,
          conversations |->
              [s \in (DOMAIN cs) \cup (DOMAIN f.data) |->
                  IF s \in DOMAIN f.data THEN Conversation_from_dict(f.data[s])
                  ELSE cs[s]]]

\* ConversationManager.load_from_file: open() raises when there is no file,
\* before the store is assigned
Manager_load_from_file(cs, f) ==
    IF ~f.exists
    THEN [raised |-> TRUE, conversations |-> cs]
    ELSE [raised |-> FALSE,
          conversations |-> [s \in DOMAIN f.data |-> Conversation_from_dict(f.data[s])]]

(***************************************************************************)
(* cox/generation/prompt.py and cox/generation/llm.py                      *)
(***************************************************************************)
\* create_out_of_domain_response: the fixed fallback answer
OOD_RESPONSE == <<"out-of-domain">>

\* generate_response: the Generation Service's text, or its error
GENERATED == <<"generated">>
generate_response(gen_fails) ==
    [raised |-> gen_fails, value |-> IF gen_fails THEN <<>> ELSE GENERATED]

\* def create_follow_up_prompt(question, answer): the number of parameters
create_follow_up_prompt_params == 2

\* a Python call with nargs positional arguments of a function that takes
\* nparams parameters without defaults: TypeError unless they agree
PyCall(nparams, nargs) == [raised |-> nargs # nparams]

\* the fixed default list of the except branch (lines 98-102)
DEFAULT_FOLLOW_UPS == <<"default-1", "default-2">>

\* what the Generation Service answers to the follow-up request
FollowUpReplies == {"api_error", "json_list", "plain_text", "malformed"}

\* the try block of generate_follow_up_questions (lines 73-102): any
\* exception (service error, json.loads failure, a non-string item) falls
\* back to the default list
follow_up_try_block(reply, n) ==
    CASE reply = "json_list"  -> SubSeq(<<"q1?", "q2?", "q3?">>, 1, Min(n, 3))
      [] reply = "plain_text" -> SubSeq(<<"text?">>, 1, Min(n, 1))
      [] OTHER                -> DEFAULT_FOLLOW_UPS

\* generate_follow_up_questions(question, answer, n = 2): line 66 calls
\* create_follow_up_prompt(question, answer, n) before the try block
generate_follow_up_questions(reply, n) ==
    IF PyCall(create_follow_up_prompt_params, 3).raised
    THEN [raised |-> TRUE, value |-> <<>>]
    ELSE [raised |-> FALSE, value |-> follow_up_try_block(reply, n)]

(***************************************************************************)
(* cox/api/router.py : the handlers.  A handler operator takes the store,  *)
(* the clock and what the external services answer, and returns the        *)
(* request's status with the store and the clock it leaves behind.         *)
(* user_ts and asst_ts are history fields: the timestamps of the messages  *)
(* the request appended (0 when it appended none).  retrieval and          *)
(* gen_invoked are history fields too: how the handler's retrieve call     *)
(* ended ("none" when it was not reached) and whether the Generation       *)
(* Service was called for the answer.                                      *)
(***************************************************************************)
Outcome(status, cs, now, follow_up, user_ts, asst_ts) ==
    [status |-> status, conversations |-> cs, clock |-> now,
     follow_up |-> follow_up, user_ts |-> user_ts, asst_ts |-> asst_ts,
     retrieval |-> "none", gen_invoked |-> FALSE]

\* the outcome of a handler that went through its retrieve call
AfterRetrieve(o, docs, gen_invoked) ==
    [o EXCEPT !.retrieval = IF docs.raised THEN "failed" ELSE "ok",
              !.gen_invoked = gen_invoked]

\* the two add_message calls that save a finished exchange
save_conversation(cs, now, session_id, q, ans, follow_up, status) ==
    LET c1 == Manager_add_message(cs, session_id, "user", q, now)
        c2 == Manager_add_message(c1, session_id, "assistant", ans, now + 1)
    IN  Outcome(status, c2, now + 2, follow_up, now, now + 1)

\* variant: a failed retrieve call taken as an empty list of documents
chat_EmptyContextOnRetrievalError(cs, now, session_id, q, svc1, svc2, gen_fails, reply) ==
    LET d == is_domain_question(q, DEFAULT_THRESHOLD, svc1)
    IN  IF d.raised THEN Outcome("failed", cs, now, None, 0, 0)
        ELSE IF ~d.value
        THEN save_conversation(cs, now, session_id, q, OOD_RESPONSE, None, "done")
        ELSE LET docs == retrieve(q, 3, svc2)
                 ctx == Manager_get_context_for_llm(cs, session_id)
                 ans == generate_response(gen_fails)
             IN  IF ans.raised
                 THEN AfterRetrieve(Outcome("failed", ctx.conversations, now, None, 0, 0),
                                    docs, TRUE)
                 ELSE LET fu == generate_follow_up_questions(reply, 2)
                      IN  IF fu.raised
                          THEN AfterRetrieve(Outcome("failed", ctx.conversations, now,
                                                     fu, 0, 0), docs, TRUE)
                          ELSE AfterRetrieve(
                                   save_conversation(ctx.conversations, now, session_id,
                                                     q, ans.value, fu, "done"),
                                   docs, TRUE)

\* variant: the user message saved before the answer is generated
chat_SaveUserFirst(cs, now, session_id, q, svc1, svc2, gen_fails, reply) ==
    LET d == is_domain_question(q, DEFAULT_THRESHOLD, svc1)
    IN  IF d.raised THEN Outcome("failed", cs, now, None, 0, 0)
        ELSE IF ~d.value
        THEN save_conversation(cs, now, session_id, q, OOD_RESPONSE, None, "done")
        ELSE LET docs == retrieve(q, 3, svc2)
             IN  IF docs.raised
                 THEN AfterRetrieve(Outcome("failed", cs, now, None, 0, 0), docs, FALSE)
                 ELSE LET c1 == Manager_add_message(cs, session_id, "user", q, now)
                          ans == generate_response(gen_fails)
                      IN  IF ans.raised
                          THEN AfterRetrieve(Outcome("failed", c1, now + 1, None, now, 0),
                                             docs, TRUE)
                          ELSE LET fu == generate_follow_up_questions(reply, 2)
                               IN  IF fu.raised
                                   THEN AfterRetrieve(Outcome("failed", c1, now + 1, fu,
                                                              now, 0), docs, TRUE)
                                   ELSE AfterRetrieve(
                                            Outcome("done",
                                                    Manager_add_message(c1, session_id,
                                                        "assistant", ans.value, now + 1),
                                                    now + 2, fu, now, now + 1),
                                            docs, TRUE)

\* chat (lines 59-111); the handler has no await and runs in one step of the
\* event loop.  An exception ends the request as failed.
chat(cs, now, session_id, q, svc1, svc2, gen_fails, reply) ==
    LET d == is_domain_question(q, DEFAULT_THRESHOLD, svc1)
    IN  IF d.raised THEN Outcome("failed", cs, now, None, 0, 0)
        ELSE IF ~d.value
        THEN save_conversation(cs, now, session_id, q, OOD_RESPONSE, None, "done")
        ELSE LET docs == retrieve(q, 3, svc2)
             IN  IF docs.raised
                 THEN AfterRetrieve(Outcome("failed", cs, now, None, 0, 0), docs, FALSE)
                 ELSE LET ctx == Manager_get_context_for_llm(cs, session_id)
                          ans == generate_response(gen_fails)
                      IN  IF ans.raised
                          THEN AfterRetrieve(Outcome("failed", ctx.conversations, now,
                                                     None, 0, 0), docs, TRUE)
                          ELSE LET fu == generate_follow_up_questions(reply, 2)
                               IN  IF fu.raised
                                   THEN AfterRetrieve(Outcome("failed", ctx.conversations,
                                                              now, fu, 0, 0), docs, TRUE)
                                   ELSE AfterRetrieve(
                                            save_conversation(ctx.conversations, now,
                                                              session_id, q, ans.value,
                                                              fu, "done"),
                                            docs, TRUE)

\* chat_stream up to its return (lines 114-179): everything but the body of
\* the response generator, again without await
chat_stream(cs, now, session_id, q, svc1, svc2) ==
    LET d == is_domain_question(q, DEFAULT_THRESHOLD, svc1)
    IN  IF d.raised THEN Outcome("failed", cs, now, None, 0, 0)
        ELSE IF ~d.value
        THEN save_conversation(cs, now, session_id, q, OOD_RESPONSE, None, "ood_streaming")
        ELSE LET docs == retrieve(q, 3, svc2)
             IN  IF docs.raised
                 THEN AfterRetrieve(Outcome("failed", cs, now, None, 0, 0), docs, FALSE)
                 ELSE LET ctx == Manager_get_context_for_llm(cs, session_id)
                      IN  AfterRetrieve(
                              Outcome("streaming",
                                      Manager_add_message(ctx.conversations, session_id,
                                                          "user", q, now),
                                      now + 1, None, now, 0),
                              docs, FALSE)

(***************************************************************************)
(* Specification of the API: requests arrive one after the other; a        *)
(* streaming request stays suspended at the awaits of its generator while  *)
(* other requests run.                                                     *)
(***************************************************************************)
Reqs == 1..MaxReqs

ApiQueries  == { <<"A", "b">>, <<"b", "a">> }
ApiServices ==
    { [embed_fails |-> FALSE, index_fails |-> FALSE, distances |-> <<50>>],
      [embed_fails |-> FALSE, index_fails |-> FALSE, distances |-> <<95>>],
      [embed_fails |-> TRUE,  index_fails |-> FALSE, distances |-> <<>>],
      [embed_fails |-> FALSE, index_fails |-> TRUE,  distances |-> <<>>] }
ApiReplies == {"json_list", "malformed"}

NewRequest ==
    [kind |-> "none", pc |-> "new", session_id |-> "", question |-> <<>>,
     full_response |-> <<>>, follow_up |-> None, user_ts |-> 0, asst_ts |-> 0,
     retrieval |-> "none", gen_invoked |-> FALSE]

Arrived(r, kind, session_id, q, o) ==
    [kind |-> kind, pc |-> o.status, session_id |-> session_id, question |-> q,
     full_response |-> <<>>, follow_up |-> o.follow_up,
     user_ts |-> o.user_ts, asst_ts |-> o.asst_ts,
     retrieval |-> o.retrieval, gen_invoked |-> o.gen_invoked]

\* request r is the next one to arrive
IsNext(r) == reqs[r].pc = "new" /\ \A p \in Reqs : p < r => reqs[p].pc # "new"

Init ==
    /\ clock = 1
    /\ conversations = << >>
    /\ reqs = [r \in Reqs |-> NewRequest]
    /\ file = NoFile /\ last_op = NoOp
    /\ conv = None /\ appended = <<>>
    /\ question = <<>> /\ answer = <<>> /\ max_tokens = 0 /\ overlap_ratio = 0
    /\ chunk_out = None /\ qna_dict = <<>> /\ corpus_out = None
    /\ query = <<>> /\ service = None /\ domain_out = None

otherVars == <<convVars, chunkVars, corpusVars, domainVars, storeVars>>

\* POST /chat
Chat(r) ==
    /\ IsNext(r)
    /\ \E session_id \in SessionIds, q \in ApiQueries, svc1 \in ApiServices,
          svc2 \in ApiServices, gen_fails \in BOOLEAN, reply \in ApiReplies :
          LET o == chat(conversations, clock, session_id, q, svc1, svc2, gen_fails, reply)
          IN  /\ conversations' = o.conversations
              /\ clock' = o.clock
              /\ reqs' = [reqs EXCEPT ![r] = Arrived(r, "chat", session_id, q, o)]
    /\ UNCHANGED otherVars

\* POST /chat/stream, up to the return of the StreamingResponse
ChatStream(r) ==
    /\ IsNext(r)
    /\ \E session_id \in SessionIds, q \in ApiQueries, svc1 \in ApiServices,
          svc2 \in ApiServices :
          LET o == chat_stream(conversations, clock, session_id, q, svc1, svc2)
          IN  /\ conversations' = o.conversations
              /\ clock' = o.clock
              /\ reqs' = [reqs EXCEPT ![r] = Arrived(r, "stream", session_id, q, o)]
    /\ UNCHANGED otherVars

\* stream_response: one fragment arrives from generate_response_streaming
StreamFragment(r) ==
    /\ reqs[r].pc = "streaming"
    /\ Len(reqs[r].full_response) < MaxFragments
    /\ reqs' = [reqs EXCEPT ![r].full_response = Append(@, "fragment"),
                            ![r].gen_invoked = TRUE]
    /\ UNCHANGED <<clock, conversations, otherVars>>

\* stream_response: the generation stream ends; the assistant message is saved
StreamFinish(r) ==
    /\ reqs[r].pc = "streaming"
    /\ conversations' = Manager_add_message(conversations, reqs[r].session_id,
                                            "assistant", reqs[r].full_response, clock)
    /\ clock' = clock + 1
    /\ reqs' = [reqs EXCEPT ![r].pc = "done", ![r].asst_ts = clock,
                            ![r].gen_invoked = TRUE]
    /\ UNCHANGED otherVars

\* stream_response: the Generation Service fails during the stream
StreamFail(r) ==
    /\ reqs[r].pc = "streaming"
    /\ reqs' = [reqs EXCEPT ![r].pc = "failed", ![r].gen_invoked = TRUE]
    /\ UNCHANGED <<clock, conversations, otherVars>>

\* variant: the messages the abandoned request appended are taken back
StreamAbandon_Rollback(r) ==
    /\ reqs[r].pc \in {"streaming", "ood_streaming"}
    /\ reqs' = [reqs EXCEPT ![r].pc = "abandoned"]
    /\ conversations' =
          [s \in DOMAIN conversations |->
              IF s = reqs[r].session_id
              THEN [conversations[s] EXCEPT !.messages =
                      SelectSeq(@, LAMBDA m : m.timestamp \notin
                                                {reqs[r].user_ts, reqs[r].asst_ts})]
              ELSE conversations[s]]
    /\ UNCHANGED <<clock, otherVars>>

\* the client goes away mid-stream: the generator is closed where it waits
StreamAbandon(r) ==
    /\ reqs[r].pc \in {"streaming", "ood_streaming"}
    /\ reqs' = [reqs EXCEPT ![r].pc = "abandoned"]
    /\ UNCHANGED <<clock, conversations, otherVars>>

\* stream_out_of_domain runs to its end
OodStreamFinish(r) ==
    /\ reqs[r].pc = "ood_streaming"
    /\ reqs' = [reqs EXCEPT ![r].pc = "done"]
    /\ UNCHANGED <<clock, conversations, otherVars>>

\* GET /chat/history/{session_id}
GetChatHistory(r) ==
    /\ IsNext(r)
    /\ \E session_id \in SessionIds :
          /\ conversations' = Manager_get_history(conversations, session_id).conversations
          /\ reqs' = [reqs EXCEPT ![r] =
                        [NewRequest EXCEPT !.kind = "history", !.pc = "done",
                                           !.session_id = session_id]]
    /\ UNCHANGED <<clock, otherVars>>

\* DELETE /chat/history/{session_id}
ClearChatHistory(r) ==
    /\ IsNext(r)
    /\ \E session_id \in SessionIds :
          /\ conversations' = Manager_clear_conversation(conversations, session_id)
          /\ reqs' = [reqs EXCEPT ![r] =
                        [NewRequest EXCEPT !.kind = "clear", !.pc = "done",
                                           !.session_id = session_id]]
    /\ UNCHANGED <<clock, otherVars>>

Next ==
    \E r \in Reqs :
        \/ Chat(r)
        \/ ChatStream(r)
        \/ StreamFragment(r)
        \/ StreamFinish(r)
        \/ StreamFail(r)
        \/ StreamAbandon(r)
        \/ OodStreamFinish(r)
        \/ GetChatHistory(r)
        \/ ClearChatHistory(r)

Spec == Init /\ [][Next]_vars

\* the position of the message with timestamp ts in a session's history, 0 if absent
PositionOf(session_id, ts) ==
    IF session_id \notin DOMAIN conversations THEN 0
    ELSE LET ms == conversations[session_id].messages
             is == { i \in 1..Len(ms) : ms[i].timestamp = ts }
         IN  IF is = {} THEN 0 ELSE CHOOSE i \in is : TRUE

\* sessions a clear request has run on
ClearedSessions == { reqs[r].session_id : r \in { p \in Reqs : reqs[p].kind = "clear" } }

\* C4: requests on the same session are serialized: no appended message is
\* lost (unless a clear ran on the session) and each request's assistant
\* message immediately follows that same request's user message.
C4_RequestsSerialized ==
    \A r \in Reqs :
        /\ (reqs[r].user_ts # 0 /\ reqs[r].session_id \notin ClearedSessions)
              => PositionOf(reqs[r].session_id, reqs[r].user_ts) # 0
        /\ (reqs[r].asst_ts # 0 /\ reqs[r].session_id \notin ClearedSessions)
              => PositionOf(reqs[r].session_id, reqs[r].asst_ts) # 0
        /\ PositionOf(reqs[r].session_id, reqs[r].asst_ts) # 0
              => /\ PositionOf(reqs[r].session_id, reqs[r].asst_ts) > 1
                 /\ PositionOf(reqs[r].session_id, reqs[r].user_ts)
                        = PositionOf(reqs[r].session_id, reqs[r].asst_ts) - 1

\* C6: generate_follow_up_questions never surfaces an error to its caller:
\* every call returns a list of follow-up questions, so no chat request is
\* failed by follow-up generation.
C6_FollowUpNeverRaises ==
    \A r \in Reqs :
        reqs[r].follow_up # None =>
            /\ ~reqs[r].follow_up.raised
            /\ Len(reqs[r].follow_up.value) >= 1
            /\ reqs[r].pc # "failed"

\* the messages of a session, none when the store does not hold it
MessagesOf(cs, session_id) ==
    IF session_id \in DOMAIN cs THEN cs[session_id].messages ELSE <<>>

\* C14: when the retrieve call of a chat request on an in-domain query fails
\* (embedding call or index query), the request ends as failed: no answer is
\* returned, no message is saved, and the Generation Service is not invoked
\* for it; the Generation Service is invoked only after a successful retrieve.
C14_RetrievalFailureIsExplicit ==
    \A r \in Reqs :
        /\ reqs[r].retrieval = "failed" =>
              /\ reqs[r].pc = "failed"
              /\ ~reqs[r].gen_invoked
              /\ reqs[r].full_response = <<>>
              /\ reqs[r].user_ts = 0 /\ reqs[r].asst_ts = 0
        /\ reqs[r].gen_invoked => reqs[r].retrieval = "ok"

\* a chat request and a streaming request, both failed at their retrieve call
C14_Witness ==
    \E r, p \in Reqs :
        /\ reqs[r].kind = "chat" /\ reqs[r].retrieval = "failed" /\ reqs[r].pc = "failed"
        /\ reqs[p].kind = "stream" /\ reqs[p].retrieval = "failed" /\ reqs[p].pc = "failed"

\* a clear request that arrived after request r ran on r's session
ClearedAfter(r) ==
    \E p \in Reqs : p > r /\ reqs[p].kind = "clear" /\ reqs[p].session_id = reqs[r].session_id

\* the messages request r appended are in its session's history
MessagesKept(r) ==
    /\ reqs[r].user_ts # 0 => PositionOf(reqs[r].session_id, reqs[r].user_ts) # 0
    /\ reqs[r].asst_ts # 0 => PositionOf(reqs[r].session_id, reqs[r].asst_ts) # 0

\* C18: when a streaming request is abandoned mid-stream, the messages it
\* had appended stay in the session's history (until a later clear), and the
\* session stays usable: the messages appended by later requests on the same
\* session are in the history behind them.
C18_AbandonedStreamKeepsHistory ==
    \A r \in Reqs :
        (reqs[r].pc = "abandoned" /\ ~ClearedAfter(r)) =>
            /\ reqs[r].user_ts # 0
            /\ MessagesKept(r)
            /\ \A p \in Reqs :
                  (p > r /\ reqs[p].session_id = reqs[r].session_id) =>
                      /\ MessagesKept(p)
                      /\ reqs[p].user_ts # 0 =>
                            PositionOf(reqs[p].session_id, reqs[p].user_ts)
                                > PositionOf(reqs[r].session_id, reqs[r].user_ts)

\* an in-domain streaming request abandoned after its user message was
\* saved, and a later request on the same session that appended both of its
\* messages
C18_Witness ==
    \E r, p \in Reqs :
        /\ reqs[r].kind = "stream" /\ reqs[r].pc = "abandoned" /\ reqs[r].retrieval = "ok"
        /\ reqs[r].asst_ts = 0
        /\ p > r /\ reqs[p].session_id = reqs[r].session_id
        /\ reqs[p].pc = "done" /\ reqs[p].asst_ts # 0
        /\ PositionOf(reqs[r].session_id, reqs[r].user_ts) = 1
        /\ PositionOf(reqs[p].session_id, reqs[p].asst_ts) = 3

\* only chat, history and clear requests have arrived
OnlySequentialRequests ==
    \A r \in Reqs : reqs[r].kind \in {"none", "chat", "history", "clear"}

\* every session's history is a sequence of user/assistant pairs
PairsInOrder ==
    \A s \in DOMAIN conversations :
        LET ms == conversations[s].messages
        IN  /\ Len(ms) % 2 = 0
            /\ \A i \in 1..Len(ms) :
                  ms[i].role = IF i % 2 = 1 THEN "user" ELSE "assistant"

\* the step in which chat request r arrives and runs
ChatStep(r) == reqs[r].pc = "new" /\ reqs'[r].kind = "chat"

\* C20: a chat request changes the messages atomically and only on success:
\* a failed request (classification, retrieval, generation or follow-up
\* generation) appends no message to any session; a successful one appends
\* exactly its user message followed by its assistant message to its session
\* and nothing to the others; and while only non-streaming requests arrive,
\* every history consists of user/assistant pairs in order.
C20_ChatAppendsAtomically ==
    [][ /\ \A r \in Reqs :
              ChatStep(r) =>
                  LET sid == reqs'[r].session_id
                      old == MessagesOf(conversations, sid)
                      new == MessagesOf(conversations', sid)
                  IN  /\ reqs'[r].pc \in {"failed", "done"}
                      /\ \A s \in SessionIds \ {sid} :
                            MessagesOf(conversations', s) = MessagesOf(conversations, s)
                      /\ reqs'[r].pc = "failed" => new = old
                      /\ reqs'[r].pc = "done" =>
                            /\ Len(new) >= 2
                            /\ new[Len(new) - 1].role = "user"
                            /\ new[Len(new) - 1].content = reqs'[r].question
                            /\ new[Len(new)].role = "assistant"
                            /\ IsSuffixOf(SubSeq(new, 1, Len(new) - 2), old)
                            /\ Len(new) = Len(old) + 2 \/ Len(new) = 2 * MAX_CONVERSATION_HISTORY
        /\ OnlySequentialRequests' => PairsInOrder' ]_vars

\* a chat request failed after its retrieve call succeeded (at generation or
\* at follow-up generation) on a session where an earlier chat request had
\* appended its pair: the history holds that pair alone
C20_Witness ==
    \E r, p \in Reqs :
        /\ r < p /\ reqs[r].session_id = reqs[p].session_id
        /\ reqs[r].kind = "chat" /\ reqs[r].pc = "done"
        /\ reqs[p].kind = "chat" /\ reqs[p].pc = "failed" /\ reqs[p].gen_invoked
        /\ Len(MessagesOf(conversations, reqs[r].session_id)) = 2
        /\ PositionOf(reqs[r].session_id, reqs[r].user_ts) = 1
        /\ PositionOf(reqs[r].session_id, reqs[r].asst_ts) = 2

(***************************************************************************)
(* Specification of the session store: the calls of ConversationManager,   *)
(* one at a time, with one file for export and import.                     *)
(***************************************************************************)
Op(name, session_id, raised) ==
    [name |-> name, session_id |-> session_id, raised |-> raised,
     sessions_before |-> DOMAIN conversations]

InitManager ==
    /\ clock = 1
    /\ conversations = << >>
    /\ file = NoFile
    /\ last_op = NoOp
    /\ reqs = << >>
    /\ conv = None /\ appended = <<>>
    /\ question = <<>> /\ answer = <<>> /\ max_tokens = 0 /\ overlap_ratio = 0
    /\ chunk_out = None /\ qna_dict = <<>> /\ corpus_out = None
    /\ query = <<>> /\ service = None /\ domain_out = None

managerOtherVars == <<convVars, chunkVars, corpusVars, domainVars, reqs>>

MgrGetConversation ==
    /\ \E session_id \in SessionIds :
          /\ conversations' = Manager_get_conversation(conversations, session_id)
          /\ last_op' = Op("get_conversation", session_id, FALSE)
    /\ UNCHANGED <<clock, file, managerOtherVars>>

MgrAddMessage ==
    /\ clock <= MaxStoreAppends
    /\ \E session_id \in SessionIds, role \in Roles :
          /\ conversations' = Manager_add_message(conversations, session_id, role, "text", clock)
          /\ last_op' = Op("add_message", session_id, FALSE)
    /\ clock' = clock + 1
    /\ UNCHANGED <<file, managerOtherVars>>

MgrGetHistory ==
    /\ \E session_id \in SessionIds :
          /\ conversations' = Manager_get_history(conversations, session_id).conversations
          /\ last_op' = Op("get_history", session_id, FALSE)
    /\ UNCHANGED <<clock, file, managerOtherVars>>

MgrGetContextForLlm ==
    /\ \E session_id \in SessionIds :
          /\ conversations' =
                Manager_get_context_for_llm(conversations, session_id).conversations
          /\ last_op' = Op("get_context_for_llm", session_id, FALSE)
    /\ UNCHANGED <<clock, file, managerOtherVars>>

MgrClearConversation ==
    /\ \E session_id \in SessionIds :
          /\ conversations' = Manager_clear_conversation(conversations, session_id)
          /\ last_op' = Op("clear_conversation", session_id, FALSE)
    /\ UNCHANGED <<clock, file, managerOtherVars>>

MgrDeleteConversation ==
    /\ \E session_id \in SessionIds :
          /\ conversations' = Manager_delete_conversation(conversations, session_id)
          /\ last_op' = Op("delete_conversation", session_id, FALSE)
    /\ UNCHANGED <<clock, file, managerOtherVars>>

MgrSaveToFile ==
    /\ file' = Manager_save_to_file(conversations)
    /\ last_op' = Op("save_to_file", "", FALSE)
    /\ UNCHANGED <<clock, conversations, managerOtherVars>>

MgrLoadFromFile ==
    /\ LET o == Manager_load_from_file(conversations, file)
       IN  /\ conversations' = o.conversations
           /\ last_op' = Op("load_from_file", "", o.raised)
    /\ UNCHANGED <<clock, file, managerOtherVars>>

NextManager ==
    \/ MgrGetConversation
    \/ MgrAddMessage
    \/ MgrGetHistory
    \/ MgrGetContextForLlm
    \/ MgrClearConversation
    \/ MgrDeleteConversation
    \/ MgrSaveToFile
    \/ MgrLoadFromFile

SpecManager == InitManager /\ [][NextManager]_vars

\* the last call was a load_from_file that returned
Imported == last_op.name = "load_from_file" /\ ~last_op.raised

\* C15: after load_from_file the store holds exactly the imported record:
\* its session ids are the keys of the record, each session's messages are
\* the record's messages in order, and no session or message that was only
\* in memory is left.
C15_ImportReplacesStore ==
    Imported =>
        /\ DOMAIN conversations = DOMAIN file.data
        /\ \A s \in DOMAIN conversations :
              LET ms == conversations[s].messages
                  fs == file.data[s].messages
              IN  /\ Len(ms) = Len(fs)
                  /\ \A i \in 1..Len(ms) :
                        /\ ms[i].role = fs[i].role
                        /\ ms[i].content = fs[i].content
                        /\ isoformat(ms[i].timestamp) = fs[i].timestamp

\* an import into a store that held a session the file does not have, of a
\* file that has a session with messages
C15_Witness ==
    /\ Imported
    /\ last_op.sessions_before \ DOMAIN file.data # {}
    /\ \E s \in DOMAIN file.data : Len(file.data[s].messages) >= 1
    /\ DOMAIN conversations = DOMAIN file.data

ReferenceOps == {"get_conversation", "add_message", "get_history", "get_context_for_llm"}

\* C16: a reference to a session_id puts the session in the store; a session
\* leaves the store only by a delete of its session_id or by an import, and
\* enters it only by a reference or an import; clear empties the session's
\* messages and keeps it in the store; delete removes it; clear and delete
\* change no other session.
C16_SessionLifecycle ==
    [][ LET op == last_op'
            sid == last_op'.session_id
            before == conversations
            after == conversations'
        IN  /\ op.name \in ReferenceOps => sid \in DOMAIN after
            /\ \A s \in (DOMAIN before) \ (DOMAIN after) :
                  \/ op.name = "delete_conversation" /\ sid = s
                  \/ op.name = "load_from_file" /\ ~op.raised
            /\ \A s \in (DOMAIN after) \ (DOMAIN before) :
                  \/ op.name \in ReferenceOps /\ sid = s
                  \/ op.name = "load_from_file" /\ ~op.raised
            /\ op.name = "clear_conversation" =>
                  /\ DOMAIN after = DOMAIN before
                  /\ sid \in DOMAIN before => after[sid].messages = <<>>
                  /\ \A t \in (DOMAIN before) \ {sid} : after[t] = before[t]
            /\ op.name = "delete_conversation" =>
                  /\ DOMAIN after = (DOMAIN before) \ {sid}
                  /\ \A t \in DOMAIN after : after[t] = before[t]
      ]_vars

\* a session with messages was cleared and is still in the store, empty,
\* next to another session that kept its messages
C16_Witness ==
    /\ last_op.name = "clear_conversation"
    /\ last_op.session_id \in DOMAIN conversations
    /\ conversations[last_op.session_id].messages = <<>>
    /\ \E t \in DOMAIN conversations :
          t # last_op.session_id /\ Len(conversations[t].messages) >= 1
    /\ clock > 2

====
